---------------------------- MODULE Spec2Model ----------------------------
(***************************************************************************)
(* scripts/convert-video-to-ascii.py as a state machine: one run of main   *)
(* is the sequence of its stages (glyph templates, frame extraction,       *)
(* loading, palette, structural matching, binary write), acting on the     *)
(* temporary directory, the destination path and the program's locals.     *)
(*                                                                         *)
(* Numbers.  numpy's float32/float64 values are kept in fixed point:       *)
(* FxOne units per 1.0 for brightness, ColOne units per colour level.      *)
(* Products of two brightness values are kept at FxOne*FxOne units per 1.0 *)
(* so that sums of squares and dot products lose nothing before the square *)
(* root or the division.  A literal below the grid (1e-6, 1e-8) is the     *)
(* grid's smallest value not below it, so "x < 1e-6" decides exactly as    *)
(* in the code (a region norm is 0 or at least 1/255) and the epsilon      *)
(* keeps every denominator positive.                                       *)
(*                                                                         *)
(* Pictures.  A decoded frame is kept by the key of its picture; RGBAt and *)
(* GrayAt give its pixels.  The font and the video are collaborators of    *)
(* the program: FontInk and RGBAt are the bitmaps they deliver here.       *)
(***************************************************************************)
EXTENDS Integers, Sequences, FiniteSets, TLC

(* ----------------------------- bounds -------------------------------- *)
MaxFrames == 3
MaxRuns == 2

(* ------------------------ program constants --------------------------- *)
FxOne == 1000
ColOne == 16
FirstCode == 32
EndCode == 127
MinCellW == 8
MinCellH == 14
FontBBoxW == 6
FontBBoxH == 11
PadWidth == 4
SampleStride == 8
n_colors == 256
random_state == 42
U16Limit == 65536
U8Limit == 256

None == "None"

(* --------------------------- arithmetic ------------------------------- *)
Max(a, b) == IF a >= b THEN a ELSE b
Min(a, b) == IF a <= b THEN a ELSE b

RECURSIVE Sum(_, _, _)
\* f[lo] + ... + f[hi], split in halves to keep the recursion shallow.
Sum(f, lo, hi) ==
    IF lo > hi THEN 0
    ELSE IF lo = hi THEN f[lo]
    ELSE LET mid == (lo + hi) \div 2
         IN Sum(f, lo, mid) + Sum(f, mid + 1, hi)

RECURSIVE SqrtSearch(_, _, _)
SqrtSearch(n, lo, hi) ==
    IF lo >= hi THEN lo
    ELSE LET mid == (lo + hi + 1) \div 2
         IN IF mid * mid <= n THEN SqrtSearch(n, mid, hi)
            ELSE SqrtSearch(n, lo, mid - 1)

\* floor of the square root; arguments stay below 46340^2.
ISqrt(n) == SqrtSearch(n, 0, 46340)

RECURSIVE FracDiv(_, _, _)
\* the digits of r / b (r < b) after the point, down to the grid `unit`
\* (a power of ten), one decimal digit at a time so that nothing overflows.
FracDiv(r, b, unit) ==
    IF unit = 1 THEN 0
    ELSE ((r * 10) \div b) * (unit \div 10)
         + FracDiv((r * 10) % b, b, unit \div 10)

\* a / b on the brightness grid, for a and b counted in the same unit.
FxDiv(a, b) == (a \div b) * FxOne + FracDiv(a % b, b, FxOne)

\* The smallest grid value that is not below num / den: what a literal
\* below the grid's resolution becomes.
GridCeil(num, den, unit) == (num * unit + den - 1) \div den

RECURSIVE Pow10(_)
Pow10(d) == IF d = 0 THEN 1 ELSE 10 * Pow10(d - 1)

\* Python's round() of the fraction num / den (ties go to the even integer).
PyRound(num, den) ==
    LET q == num \div den
        r == num % den
    IN IF 2 * r < den THEN q
       ELSE IF 2 * r > den THEN q + 1
       ELSE IF q % 2 = 0 THEN q ELSE q + 1

\* np.array / ndarray: the elements are held, not recomputed at each use.
Array(f) == f \o <<>>

(* ------------------------ font and glyph bank ------------------------- *)
\* lines 171-178: the cell is the bounding box of "@" in the font, at least
\* MinCellW x MinCellH.
cell_w == Max(FontBBoxW, MinCellW)
cell_h == Max(FontBBoxH, MinCellH)
CellPixels == cell_w * cell_h

\* draw.text((0, 0), ch, fill=255, font=font): whether the font puts ink on
\* pixel (x, y) of the cell for the character `code`.  Space draws nothing;
\* characters six codes apart share a bitmap, and no character inks the
\* first column outside every sixth line.
FontInk(code, x, y) ==
    /\ code > FirstCode
    /\ (x * (code - FirstCode) + y) % 6 = 0

\* lines 56-69: chars (as character codes) and templates, one flat
\* cell_h*cell_w bitmap per character with brightness 0 or 1.0.
build_glyph_chars == Array([i \in 1..(EndCode - FirstCode) |-> FirstCode + i - 1])

build_glyph_templates ==
    Array([i \in 1..(EndCode - FirstCode) |->
        Array([p \in 1..CellPixels |->
            IF FontInk(FirstCode + i - 1, (p - 1) % cell_w, (p - 1) \div cell_w)
            THEN (255 * FxOne) \div 255 ELSE 0])])

\* np.linalg.norm of a flat array on the brightness grid.
Norm(v) == ISqrt(Sum([p \in 1..Len(v) |-> v[p] * v[p]], 1, Len(v)))

\* line 194
TemplateNorms(tpl) == Array([i \in 1..Len(tpl) |-> Norm(tpl[i])])

(* ----------------------------- geometry ------------------------------- *)
\* line 181: rows = round(cols * 9 / 16 * (cell_w / cell_h))
RowsOf(cols) == PyRound(cols * 9 * cell_w, 16 * cell_h)
PixelW(cols) == cols * cell_w
PixelH(cols) == RowsOf(cols) * cell_h

(* ----------------------------- pictures ------------------------------- *)
\* What the frames of the source video show, scaled by ffmpeg to the
\* requested size; (x, y) is a pixel, (x \div cell_w, y \div cell_h) its cell.
PictureCycle == <<"black", "spot", "bars", "ramp", "dusk">>

RGBAt(pic, y, x) ==
    LET col == x \div cell_w
        row == y \div cell_h
    IN CASE pic = "spot" /\ row = 1 /\ col = 1 -> <<255, 255, 255>>
         [] pic = "bars" /\ row = 0 /\ col = 0
                /\ x % cell_w = 0 /\ y % 6 # 0 -> <<255, 255, 255>>
         [] pic = "ramp" /\ row = 0 /\ col = 1
                -> <<(x * 31) % 256, (y * 17) % 256, 64>>
         [] pic = "dusk" /\ row = 0 /\ col = 0 -> <<0, 0, 9>>
         [] pic = "dusk" /\ row = 0 /\ col = 1 -> <<0, 0, 4>>
         [] OTHER -> <<0, 0, 0>>

\* img.convert("L"): ITU-R 601-2 luma, as Pillow computes it.
LumaOf(rgb) == (rgb[1] * 19595 + rgb[2] * 38470 + rgb[3] * 7471 + 32768) \div 65536

GrayAt(pic, y, x) == LumaOf(RGBAt(pic, y, x))

(* ------------------------- extract_frames ----------------------------- *)
RECURSIVE Digits(_)
\* the decimal digits of k >= 0 as character codes
Digits(k) == IF k < 10 THEN <<48 + k>> ELSE Append(Digits(k \div 10), 48 + (k % 10))

RECURSIVE ZeroPad(_, _)
\* %0<width>d: zeros on the left up to the width, never a cut
ZeroPad(s, width) == IF Len(s) >= width THEN s ELSE ZeroPad(<<48>> \o s, width)

\* line 125: the k-th file ffmpeg writes under "frame_%04d.png" (k = 1, 2, ...)
FrameName(k) ==
    <<102, 114, 97, 109, 101, 95>> \o ZeroPad(Digits(k), PadWidth) \o <<46, 112, 110, 103>>

RECURSIVE DigitsValue(_)
\* the number a run of decimal digits spells
DigitsValue(ds) ==
    IF Len(ds) = 0 THEN 0
    ELSE 10 * DigitsValue(SubSeq(ds, 1, Len(ds) - 1)) + (ds[Len(ds)] - 48)

\* the k for which ffmpeg wrote the file of this name
FrameNumber(name) == DigitsValue(SubSeq(name, 7, Len(name) - 4))

\* f.endswith(".png")
EndsWithPng(name) ==
    /\ Len(name) >= 4
    /\ SubSeq(name, Len(name) - 3, Len(name)) = <<46, 112, 110, 103>>

RECURSIVE StrLessFrom(_, _, _)
StrLessFrom(a, b, i) ==
    IF i > Len(b) THEN FALSE
    ELSE IF i > Len(a) THEN TRUE
    ELSE IF a[i] # b[i] THEN a[i] < b[i]
    ELSE StrLessFrom(a, b, i + 1)

\* Python's str "<": by code point, a proper prefix first.  The directory
\* part of the paths is the same for all and decides nothing.
StrLess(a, b) == StrLessFrom(a, b, 1)

\* os.listdir gives the names in an order of the file system's choosing: the
\* order of creation, or that order with its two ends exchanged.
ListdirOrders(n) ==
    { [i \in 1..n |-> i],
      [i \in 1..n |-> IF i = 1 THEN n ELSE IF i = n THEN 1 ELSE i] }

\* the listing filtered but left in the order os.listdir gave
UnsortedPaths(listing) == SelectSeq(listing, EndsWithPng)

\* lines 133-135: sorted(... for f in os.listdir(out_dir) if f.endswith(".png"))
SortedPaths(listing) == SortSeq(SelectSeq(listing, EndsWithPng), StrLess)

\* subprocess.run without check=True: the exit status is not looked at
ExitStatusIgnored(rc) == FALSE

\* subprocess.run(cmd, check=True): a non-zero exit status raises.
CalledProcessError(rc) == rc # 0

(* -------------------------- build_palette ----------------------------- *)
\* line 144: np.concatenate raises ValueError on an empty list.
ConcatenateRaises(frames) == Len(frames) = 0

\* number of rows of all_pixels
AllPixelsLen(frames, cols) == Len(frames) * PixelW(cols) * PixelH(cols)

\* line 145: len(all_pixels[::8])
SampleLen(frames, cols) == (AllPixelsLen(frames, cols) + SampleStride - 1) \div SampleStride

\* sample[i] (i from 0): row SampleStride*i of the frames' pixels laid end to end
SampleAt(frames, cols, i) ==
    LET q == SampleStride * i
        per == PixelW(cols) * PixelH(cols)
        off == q % per
    IN RGBAt(frames[(q \div per) + 1], off \div PixelW(cols), off % PixelW(cols))

\* MiniBatchKMeans refuses fewer samples than clusters (ValueError).
FitRaises(n_samples) == n_samples < n_colors

\* kmeans.fit(sample) with random_state fixed: cluster_centers_, n_colors
\* float triples that depend on the sample and the seed alone.  Each centre
\* is the mean of two sample rows picked by the seed.
FitCenters(frames, cols, seed) ==
    LET n == SampleLen(frames, cols)
    IN Array([k \in 1..n_colors |->
          LET a == SampleAt(frames, cols, ((k - 1) * 37 + seed) % n)
              b == SampleAt(frames, cols, ((k - 1) * 91 + 7 * seed + 1) % n)
          IN Array([c \in 1..3 |-> ((a[c] + b[c]) * ColOne) \div 2])])

\* line 151: astype(np.uint8) drops the fraction
PaletteOf(centers) ==
    Array([k \in 1..Len(centers) |->
             Array([c \in 1..3 |-> (centers[k][c] \div ColOne) % U8Limit])])

\* squared Euclidean distance on the colour grid
Dist2(a, b) == Sum([c \in 1..3 |-> (a[c] - b[c]) * (a[c] - b[c])], 1, 3)

RECURSIVE FirstMin(_, _, _)
\* the first position in lo..hi that holds the least value of v there; the
\* left half wins a tie.
FirstMin(v, lo, hi) ==
    IF lo >= hi THEN lo
    ELSE LET mid == (lo + hi) \div 2
             l == FirstMin(v, lo, mid)
             r == FirstMin(v, mid + 1, hi)
         IN IF v[r] < v[l] THEN r ELSE l

\* kmeans.predict(x)[0]: the label (from 0) of the nearest centre, the first
\* of them when several are nearest.
Predict(centers, x) ==
    LET d == Array([k \in 1..Len(centers) |-> Dist2(centers[k], x)])
    IN FirstMin(d, 1, Len(d)) - 1

(* ---------------------- structural_match_frame ------------------------ *)
\* line 104: the literal 1e-6, and line 110: the literal 1e-8 (added to a
\* product of two norms, which is counted in FxOne*FxOne units).
NearZero == GridCeil(1, 1000000, FxOne)
Epsilon == GridCeil(1, 100000000, FxOne * FxOne)

\* storing into a uint8 array keeps the low eight bits
ToU8(v) == v % U8Limit

\* a loop over the rows that stops one row early
RowRangeShort(rows) == 0..(rows - 2)

\* range(rows), range(cols)
RowRange(rows) == 0..(rows - 1)
ColRange(cols) == 0..(cols - 1)

\* lines 98-101: the cell's grey pixels, flattened row by row, over 255
RegionFlat(pic, row, col) ==
    Array([p \in 1..CellPixels |->
             (GrayAt(pic, row * cell_h + ((p - 1) \div cell_w),
                          col * cell_w + ((p - 1) % cell_w)) * FxOne) \div 255])

\* line 109: flat_templates @ region_flat
Dots(tpl, region) ==
    Array([i \in 1..Len(tpl) |->
             Sum([p \in 1..Len(region) |-> tpl[i][p] * region[p]], 1, Len(region))])

\* line 110: dots / (template_norms * region_norm + 1e-8)
Scores(tpl, norms, region, region_norm) ==
    LET dots == Dots(tpl, region)
    IN Array([i \in 1..Len(tpl) |-> FxDiv(dots[i], norms[i] * region_norm + Epsilon)])

RECURSIVE FirstMax(_, _, _)
\* the first position in lo..hi that holds the greatest value of v there
FirstMax(v, lo, hi) ==
    IF lo >= hi THEN lo
    ELSE LET mid == (lo + hi) \div 2
             l == FirstMax(v, lo, mid)
             r == FirstMax(v, mid + 1, hi)
         IN IF v[r] > v[l] THEN r ELSE l

\* np.argmax with the last occurrence of the maximum instead of the first
ArgMaxLast(v) ==
    (CHOOSE i \in 1..Len(v) :
        /\ \A j \in 1..Len(v) : v[j] <= v[i]
        /\ \A j \in (i + 1)..Len(v) : v[j] < v[i]) - 1

\* np.argmax: the index (from 0) of the first occurrence of the maximum
ArgMax(v) == FirstMax(v, 1, Len(v)) - 1

\* the code of the space character stored where its index belongs
NearBlackCode == FirstCode

\* line 106: the index stored for a nearly black region
NearBlackGlyph == 0

\* lines 104-111
GlyphOf(pic, row, col, tpl, norms) ==
    LET region == RegionFlat(pic, row, col)
        region_norm == Norm(region)
    IN IF region_norm < NearZero THEN NearBlackGlyph
       ELSE ArgMax(Scores(tpl, norms, region, region_norm))

\* lines 114-115: mean colour of the cell, per channel, on the colour grid
AvgColor(pic, row, col) ==
    Array([c \in 1..3 |->
        (Sum([p \in 1..CellPixels |->
                RGBAt(pic, row * cell_h + ((p - 1) \div cell_w),
                           col * cell_w + ((p - 1) % cell_w))[c]], 1, CellPixels)
         * ColOne) \div CellPixels])

\* lines 92-116: result after the two loops; np.empty leaves whatever the
\* memory held (garbage) in a cell the loops do not assign.
MatchResult(pic, tpl, norms, centers, cols, rows, garbage) ==
    [row \in 0..(rows - 1) |->
        [col \in 0..(cols - 1) |->
            IF row \in RowRange(rows) /\ col \in ColRange(cols)
            THEN << ToU8(GlyphOf(pic, row, col, tpl, norms)),
                    ToU8(Predict(centers, AvgColor(pic, row, col))) >>
            ELSE << garbage, garbage >>]]

RECURSIVE FlattenFrom(_, _, _, _)
\* line 118: result.flatten(), C order: the last axis runs fastest
FlattenFrom(result, rows, cols, idx) ==
    IF idx >= rows * cols THEN <<>>
    ELSE result[idx \div cols][idx % cols] \o FlattenFrom(result, rows, cols, idx + 1)

structural_match_frame(pic, tpl, norms, centers, cols, rows, garbage) ==
    FlattenFrom(MatchResult(pic, tpl, norms, centers, cols, rows, garbage), rows, cols, 0)

(* --------------------------- serialization ---------------------------- *)
\* a pack that wraps a value too large instead of raising
PackNeverRaises(v) == FALSE

\* struct.pack("<H", v) and ("<B", v) raise struct.error outside the range.
PackRaisesH(v) == v < 0 \/ v >= U16Limit
PackRaisesB(v) == v < 0 \/ v >= U8Limit

\* little-endian uint16, uint8
PackH(v) == << v % U8Limit, (v \div U8Limit) % U8Limit >>
PackB(v) == << v % U8Limit >>

\* line 240: struct.pack("<HHHH", cols, rows, fps, frame_count)
HeaderRaises(cols, rows, fps, frame_count) ==
    PackRaisesH(cols) \/ PackRaisesH(rows) \/ PackRaisesH(fps) \/ PackRaisesH(frame_count)

HeaderBytes(cols, rows, fps, frame_count) ==
    PackH(cols) \o PackH(rows) \o PackH(fps) \o PackH(frame_count)

\* line 236: "".join(chars).encode("ascii"), one byte per character
CharBytes(chs) == Array([i \in 1..Len(chs) |-> chs[i]])

RECURSIVE ConcatRange(_, _, _)
\* blocks[lo] \o ... \o blocks[hi]
ConcatRange(blocks, lo, hi) ==
    IF lo > hi THEN <<>>
    ELSE IF lo = hi THEN blocks[lo]
    ELSE LET mid == (lo + hi) \div 2
         IN ConcatRange(blocks, lo, mid) \o ConcatRange(blocks, mid + 1, hi)

\* line 245: palette.tobytes(), the uint8 triples one after the other
PaletteBytes(pal) == ConcatRange(pal, 1, Len(pal))

\* a write loop that leaves the last frame out
FramesBytesButLast(fd) == ConcatRange(fd, 1, Len(fd) - 1)

\* lines 247-248: every frame's bytes, in the order of frames_data
FramesBytes(fd) == ConcatRange(fd, 1, Len(fd))

\* lines 240-248: everything the run hands to f.write, in order
Stream(cols, rows, fps, chs, pal, fd) ==
    HeaderBytes(cols, rows, fps, Len(fd)) \o PackB(Len(chs)) \o CharBytes(chs)
      \o PaletteBytes(pal) \o FramesBytes(fd)

(* ------------------------------ reader -------------------------------- *)
\* The wire format of the module docstring, read back.
ReadH(bytes, at) == bytes[at] + U8Limit * bytes[at + 1]

Decode(bytes) ==
    LET dcols == ReadH(bytes, 1)
        drows == ReadH(bytes, 3)
        nchars == bytes[9]
        pal0 == 9 + nchars
        fr0 == pal0 + 3 * n_colors
        fsize == dcols * drows * 2
    IN [ cols |-> dcols,
         rows |-> drows,
         fps |-> ReadH(bytes, 5),
         frameCount |-> ReadH(bytes, 7),
         numChars |-> nchars,
         charTable |-> SubSeq(bytes, 10, pal0),
         palette |-> [k \in 1..n_colors |-> SubSeq(bytes, pal0 + 3 * k - 2, pal0 + 3 * k)],
         frames |-> [k \in 1..ReadH(bytes, 7) |->
                        SubSeq(bytes, fr0 + (k - 1) * fsize + 1, fr0 + k * fsize)] ]

(* =============================== state ================================ *)
VARIABLES
    video,          \* the source: the picture of each frame ffmpeg will decode
    args,           \* argparse result: [fps, cols]
    tmp_dir,        \* the temporary directory: file name -> picture written
    dest,           \* args.output on disk: [exists, bytes]
    parent_dir,     \* whether the directory of args.output exists
    pc,             \* where main is
    fail_stage,     \* the stage whose exception ended the run
    chars, templates, template_norms,
    frame_paths, frames_rgb, frames_gray,
    kmeans, palette, frames_data,
    run_no,         \* runs started so far
    first_output,   \* <<the bytes the first completed run left at args.output>>
    dest_before,    \* args.output as the current run found it
    parent_before,  \* parent_dir as the current run found it
    ffmpeg_rc,      \* exit status of each ffmpeg this run has waited for
    palette_builds  \* calls of build_palette in this run

env == << video, args >>
locals == << chars, templates, template_norms, frame_paths, frames_rgb,
             frames_gray, kmeans, palette, frames_data >>
history == << run_no, first_output, dest_before, parent_before, ffmpeg_rc, palette_builds >>
vars == << env, tmp_dir, dest, parent_dir, pc, fail_stage, locals, history >>

cols == args.cols
rows == RowsOf(args.cols)

EmptyDir == [name \in {} |-> None]

\* A source video of n frames whose pictures run through PictureCycle from
\* position s.
Video(n, s) == Array([k \in 1..n |-> PictureCycle[((s + k - 2) % Len(PictureCycle)) + 1]])

FrameCounts == 0..MaxFrames
\* around every length of the frame number, up to the first one longer
\* than the pattern's width
LongFrameCounts == UNION {{Pow10(d) - 1, Pow10(d)} : d \in 1..PadWidth}

Blank ==
    /\ tmp_dir = EmptyDir
    /\ pc = "start"
    /\ fail_stage = None
    /\ chars = <<>> /\ templates = <<>> /\ template_norms = <<>>
    /\ frame_paths = <<>> /\ frames_rgb = <<>> /\ frames_gray = <<>>
    /\ kmeans = <<>> /\ palette = <<>> /\ frames_data = <<>>
    /\ ffmpeg_rc = <<>>
    /\ palette_builds = 0

Init ==
    /\ video \in {Video(n, s) : n \in FrameCounts, s \in 1..Len(PictureCycle)}
    /\ args \in [fps : {12, U16Limit}, cols : {2, 5}]
    /\ dest = [exists |-> FALSE, bytes |-> <<>>]
    /\ parent_dir = FALSE
    /\ Blank
    /\ run_no = 1
    /\ first_output = <<>>
    /\ dest_before = dest
    /\ parent_before = parent_dir

InitLong ==
    /\ video \in {Video(n, s) : n \in LongFrameCounts, s \in 1..Len(PictureCycle)}
    /\ args \in [fps : {12}, cols : {2}]
    /\ dest = [exists |-> FALSE, bytes |-> <<>>]
    /\ parent_dir = FALSE
    /\ Blank
    /\ run_no = 1
    /\ first_output = <<>>
    /\ dest_before = dest
    /\ parent_before = parent_dir

(* ============================== actions =============================== *)
\* lines 166-195: font, cell size, glyph templates and their norms
BuildGlyphTemplates ==
    /\ pc = "start"
    /\ chars' = build_glyph_chars
    /\ templates' = build_glyph_templates
    /\ template_norms' = TemplateNorms(build_glyph_templates)
    /\ pc' = "templates"
    /\ UNCHANGED << env, tmp_dir, dest, parent_dir, fail_stage, frame_paths,
                    frames_rgb, frames_gray, kmeans, palette, frames_data, history >>

\* How many frames ffmpeg may have written when it exits: all of them, or
\* fewer when it fails.
WrittenCounts(n, rc) == IF rc = 0 THEN {n} ELSE {0, n \div 2, n}

\* lines 197-199 and extract_frames: ffmpeg writes frame files into the
\* temporary directory and exits with rc; a failure raises out of main and
\* the with block removes the directory.
ExtractFrames ==
    /\ pc = "templates"
    /\ \E rc \in {0, 1} :
       \E written \in WrittenCounts(Len(video), rc) :
       \E order \in ListdirOrders(written) :
          /\ ffmpeg_rc' = <<rc>>
          /\ IF CalledProcessError(rc)
             THEN /\ pc' = "failed"
                  /\ fail_stage' = "extract"
                  /\ tmp_dir' = EmptyDir
                  /\ frame_paths' = frame_paths
             ELSE /\ pc' = "extracted"
                  /\ fail_stage' = fail_stage
                  /\ tmp_dir' = [name \in {FrameName(k) : k \in 1..written} |->
                                    video[FrameNumber(name)]]
                  /\ frame_paths' = SortedPaths(Array([i \in 1..written |-> FrameName(order[i])]))
    /\ UNCHANGED << env, dest, parent_dir, chars, templates, template_norms,
                    frames_rgb, frames_gray, kmeans, palette, frames_data,
                    run_no, first_output, dest_before, parent_before, palette_builds >>

\* lines 201-208: every path is opened and decoded, in the order of frame_paths
LoadFrames ==
    /\ pc = "extracted"
    /\ frames_rgb' = Array([i \in 1..Len(frame_paths) |-> tmp_dir[frame_paths[i]]])
    /\ frames_gray' = Array([i \in 1..Len(frame_paths) |-> tmp_dir[frame_paths[i]]])
    /\ pc' = "loaded"
    /\ UNCHANGED << env, tmp_dir, dest, parent_dir, fail_stage, chars, templates,
                    template_norms, frame_paths, kmeans, palette, frames_data, history >>

\* line 211 and build_palette
BuildPalette ==
    /\ pc = "loaded"
    /\ palette_builds' = palette_builds + 1
    /\ IF ConcatenateRaises(frames_rgb) \/ FitRaises(SampleLen(frames_rgb, cols))
       THEN /\ pc' = "failed"
            /\ fail_stage' = "palette"
            /\ tmp_dir' = EmptyDir
            /\ UNCHANGED << kmeans, palette >>
       ELSE /\ pc' = "palette"
            /\ kmeans' = FitCenters(frames_rgb, cols, random_state)
            /\ palette' = PaletteOf(FitCenters(frames_rgb, cols, random_state))
            /\ UNCHANGED << tmp_dir, fail_stage >>
    /\ UNCHANGED << env, dest, parent_dir, chars, templates, template_norms,
                    frame_paths, frames_rgb, frames_gray, frames_data,
                    run_no, first_output, dest_before, parent_before, ffmpeg_rc >>

\* lines 214-227: structural_match_frame on every frame, in order.  The
\* function reads its arguments alone, so frames that show the same picture
\* get the same array: each picture in use is matched once.
MatchAll(gray, rgb, tpl, norms, centers, ncols, nrows, garbage) ==
    LET enc == Array([j \in 1..Len(PictureCycle) |->
                        IF \E i \in 1..Len(rgb) : rgb[i] = PictureCycle[j]
                        THEN structural_match_frame(PictureCycle[j], tpl, norms,
                                                    centers, ncols, nrows, garbage)
                        ELSE <<>>])
    IN Array([i \in 1..Len(rgb) |->
                enc[CHOOSE j \in 1..Len(PictureCycle) : PictureCycle[j] = rgb[i]]])

\* matching that streams: the file is opened and the header written before
\* the frames are matched
MatchFramesStreaming ==
    /\ pc = "palette"
    /\ \E garbage \in {0, U8Limit - 1} :
          frames_data' = MatchAll(frames_gray, frames_rgb, templates, template_norms,
                                  kmeans, cols, rows, garbage)
    /\ dest' = [exists |-> TRUE,
                bytes |-> HeaderBytes(cols, rows, args.fps % U16Limit, Len(frames_rgb))]
    /\ tmp_dir' = EmptyDir
    /\ pc' = "matched"
    /\ UNCHANGED << env, parent_dir, fail_stage, chars, templates, template_norms,
                    frame_paths, frames_rgb, frames_gray, kmeans, palette, history >>

MatchFrames ==
    /\ pc = "palette"
    /\ \E garbage \in {0, U8Limit - 1} :
          frames_data' = MatchAll(frames_gray, frames_rgb, templates, template_norms,
                                  kmeans, cols, rows, garbage)
    /\ tmp_dir' = EmptyDir
    /\ pc' = "matched"
    /\ UNCHANGED << env, dest, parent_dir, fail_stage, chars, templates, template_norms,
                    frame_paths, frames_rgb, frames_gray, kmeans, palette, history >>

\* Free space on the destination's disk, in bytes, when the file is written.
DiskFree == {0, 5, 8, 104, 873, 2147483647}

\* lines 231-248: makedirs, open(args.output, "wb") (which empties an existing
\* file), then the writes; the file keeps what the disk took before an error.
WriteBinary ==
    /\ pc = "matched"
    /\ parent_dir' = TRUE
    /\ \E open_ok \in BOOLEAN, free \in DiskFree :
          IF ~open_ok
          THEN /\ pc' = "failed" /\ fail_stage' = "open" /\ dest' = dest
          ELSE IF HeaderRaises(cols, rows, args.fps, Len(frames_data))
          THEN /\ pc' = "failed" /\ fail_stage' = "pack"
               /\ dest' = [exists |-> TRUE, bytes |-> <<>>]
          ELSE IF PackRaisesB(Len(chars))
          THEN LET header == HeaderBytes(cols, rows, args.fps, Len(frames_data))
               IN /\ pc' = "failed"
                  /\ fail_stage' = IF free < Len(header) THEN "write" ELSE "pack"
                  /\ dest' = [exists |-> TRUE,
                              bytes |-> SubSeq(header, 1, Min(free, Len(header)))]
          ELSE LET stream == Stream(cols, rows, args.fps, chars, palette, frames_data)
               IN IF free < Len(stream)
                  THEN /\ pc' = "failed" /\ fail_stage' = "write"
                       /\ dest' = [exists |-> TRUE, bytes |-> SubSeq(stream, 1, free)]
                  ELSE /\ pc' = "done" /\ fail_stage' = fail_stage
                       /\ dest' = [exists |-> TRUE, bytes |-> stream]
    /\ UNCHANGED << env, tmp_dir, locals, history >>

\* The tool is run again on the same video with the same arguments, over the
\* file the run before it wrote.
Rerun ==
    /\ pc = "done"
    /\ run_no < MaxRuns
    /\ run_no' = run_no + 1
    /\ first_output' = IF first_output = <<>> THEN <<dest.bytes>> ELSE first_output
    /\ dest_before' = dest
    /\ parent_before' = parent_dir
    /\ tmp_dir' = EmptyDir
    /\ pc' = "start"
    /\ fail_stage' = None
    /\ chars' = <<>> /\ templates' = <<>> /\ template_norms' = <<>>
    /\ frame_paths' = <<>> /\ frames_rgb' = <<>> /\ frames_gray' = <<>>
    /\ kmeans' = <<>> /\ palette' = <<>> /\ frames_data' = <<>>
    /\ ffmpeg_rc' = <<>>
    /\ palette_builds' = 0
    /\ UNCHANGED << env, dest, parent_dir >>

Run ==
    \/ BuildGlyphTemplates
    \/ ExtractFrames
    \/ LoadFrames
    \/ BuildPalette
    \/ MatchFrames
    \/ WriteBinary

Next == Run \/ Rerun

Spec == Init /\ [][Next]_vars

SpecLong == InitLong /\ [][Run]_vars

(* ============================== claims ================================ *)
\* the pair of cell number c (from 0) in a flattened frame
PairAt(block, c) == << block[2 * c + 1], block[2 * c + 2] >>

\* C1: when a run has finished writing, the frameCount field of the header
\* is the number of frame blocks the run wrote, every block is cols*rows*2
\* bytes, and the file is exactly 8 + 1 + numChars + 768 +
\* frameCount*cols*rows*2 bytes long.
C1_CountAndSize ==
    pc = "done" =>
       LET bytes == dest.bytes
           frameCount == ReadH(bytes, 7)
           numChars == bytes[9]
       IN /\ frameCount = Len(frames_data)
          /\ \A k \in 1..Len(frames_data) : Len(frames_data[k]) = cols * rows * 2
          /\ numChars = Len(chars)
          /\ Len(bytes) = 8 + 1 + numChars + 768 + frameCount * cols * rows * 2

\* a run finished with several frames in the file
C1_Witness == pc = "done" /\ Len(frames_data) >= 2 /\ rows >= 2

\* C3: reading the finished file back by the wire format gives the cols,
\* rows, fps and frame count of the run, its character table, its 256 palette
\* entries and, frame by frame and cell by cell, the pairs that
\* structural_match_frame returned.
C3_RoundTrip ==
    pc = "done" =>
       LET d == Decode(dest.bytes)
       IN /\ d.cols = cols /\ d.rows = rows /\ d.fps = args.fps
          /\ d.frameCount = Len(frames_data)
          /\ d.numChars = Len(chars)
          /\ d.charTable = chars
          /\ \A k \in 1..n_colors : d.palette[k] = palette[k]
          /\ \A k \in 1..Len(frames_data) : \A c \in 0..(cols * rows - 1) :
                PairAt(d.frames[k], c) = PairAt(frames_data[k], c)

\* a finished file that holds frames with glyphs other than the space
C3_Witness ==
    /\ pc = "done"
    /\ \E k \in 1..Len(frames_data) : \E c \in 0..(cols * rows - 1) :
          PairAt(Decode(dest.bytes).frames[k], c)[1] > 0

\* C4: every cell of every matched frame holds a glyph index below the
\* number of templates and a colour index below 256, near-black cells and
\* cross-correlated cells alike.
C4_IndicesInRange ==
    \A k \in 1..Len(frames_data) : \A c \in 0..(cols * rows - 1) :
        /\ PairAt(frames_data[k], c)[1] < Len(templates)
        /\ PairAt(frames_data[k], c)[2] < 256

\* a matched frame with a near-black cell and a cross-correlated cell
C4_Witness ==
    \E k \in 1..Len(frames_data) : \E r1, r2 \in RowRange(rows), c1, c2 \in ColRange(cols) :
        /\ Norm(RegionFlat(frames_gray[k], r1, c1)) < NearZero
        /\ Norm(RegionFlat(frames_gray[k], r2, c2)) >= NearZero
        /\ PairAt(frames_data[k], r2 * cols + c2)[1] > 0

\* the cells of a frame, as (row, col)
Cells == RowRange(rows) \X ColRange(cols)

\* lines 98-103 for the cell rc of frame k
RegionNormOf(k, rc) == Norm(RegionFlat(frames_gray[k], rc[1], rc[2]))

\* C5: a cell whose grey region, over 255, has a norm below the near-zero
\* threshold gets glyph index 0, position 0 of the character table holds
\* the space (code 32), and the cell's colour index is the palette entry
\* predicted for the cell's mean RGB.
C5_NearBlackIsSpace ==
    \A k \in 1..Len(frames_data) : \A rc \in Cells :
        RegionNormOf(k, rc) < NearZero =>
            /\ PairAt(frames_data[k], rc[1] * cols + rc[2])[1] = 0
            /\ chars[0 + 1] = 32
            /\ PairAt(frames_data[k], rc[1] * cols + rc[2])[2]
                  = Predict(kmeans, AvgColor(frames_rgb[k], rc[1], rc[2]))

\* a frame with two near-black cells of different colour index, and a cell
\* that is not near-black
C5_Witness ==
    \E k \in 1..Len(frames_data) : \E a, b, c \in Cells :
        /\ RegionNormOf(k, a) < NearZero
        /\ RegionNormOf(k, b) < NearZero
        /\ RegionNormOf(k, c) >= NearZero
        /\ PairAt(frames_data[k], a[1] * cols + a[2])[2]
             # PairAt(frames_data[k], b[1] * cols + b[2])[2]

\* line 110 for the cell rc of frame k
ScoresOf(k, rc) ==
    Scores(templates, template_norms, RegionFlat(frames_gray[k], rc[1], rc[2]),
           RegionNormOf(k, rc))

\* C9: for a cell that is not near-black the glyph stored is the smallest
\* index whose score is the maximum: no glyph scores higher, and every glyph
\* that scores the same has an index at least as large.
C9_FirstMaximum ==
    pc = "matched" =>
       \A k \in 1..Len(frames_data) : \A rc \in Cells :
          RegionNormOf(k, rc) >= NearZero =>
             LET score == ScoresOf(k, rc)
                 g == PairAt(frames_data[k], rc[1] * cols + rc[2])[1] + 1
             IN \A j \in 1..Len(score) :
                   /\ score[j] <= score[g]
                   /\ score[j] = score[g] => j >= g

\* a cross-correlated cell where several glyphs share the maximum score
C9_Witness ==
    /\ pc = "matched"
    /\ \E k \in 1..Len(frames_data) : \E rc \in Cells :
          /\ RegionNormOf(k, rc) >= NearZero
          /\ LET score == ScoresOf(k, rc)
                  g == PairAt(frames_data[k], rc[1] * cols + rc[2])[1] + 1
             IN /\ g > 1
                /\ \E j \in (g + 1)..Len(score) : score[j] = score[g]

\* the stream a run that wrote everything leaves at the destination
CompleteStream == Stream(cols, rows, args.fps, chars, palette, frames_data)

\* C6: when an error is raised after the output file was opened (packing or
\* writing the header, the character table, the palette or a frame block),
\* the destination holds a complete stream or is as the run found it.
C6_NoPartialOutput ==
    (pc = "failed" /\ fail_stage \in {"pack", "write"}) =>
        \/ dest = dest_before
        \/ dest.exists /\ dest.bytes = CompleteStream

\* C7: a failure of ffmpeg, an empty set of frames or a failure of the
\* clustering ends the run: a non-zero exit status of ffmpeg is never run
\* past, no palette is ever built from zero frames, and a run that ended in
\* such a failure left the destination and its directory as it found them.
C7_FailuresBeforeOutput ==
    /\ (ffmpeg_rc # <<>> /\ ffmpeg_rc[1] # 0) => (pc = "failed" /\ fail_stage = "extract")
    /\ pc \in {"palette", "matched", "done"} => Len(frames_rgb) > 0
    /\ (pc = "failed" /\ fail_stage \in {"extract", "palette"}) =>
           /\ dest = dest_before
           /\ parent_dir = parent_before

\* a second run over an existing output that ends in ffmpeg failing
C7_Witness ==
    /\ pc = "failed" /\ fail_stage = "extract"
    /\ run_no = 2 /\ dest.exists /\ Len(dest.bytes) > 0

\* C8: a run on the same video with the same arguments leaves the bytes the
\* first run left, whatever the directory listing's order, the contents of
\* fresh memory and the file already at the destination were.
C8_Idempotent ==
    (pc = "done" /\ first_output # <<>>) => dest.bytes = first_output[1]

\* a second run finished, on a video of several frames
C8_Witness ==
    /\ pc = "done" /\ run_no = 2 /\ first_output # <<>>
    /\ Len(frames_data) >= 2

\* the stage each stage follows
StageOrder ==
    { <<"start", "templates">>, <<"templates", "extracted">>, <<"templates", "failed">>,
      <<"extracted", "loaded">>, <<"loaded", "palette">>, <<"loaded", "failed">>,
      <<"palette", "matched">>, <<"matched", "done">>, <<"matched", "failed">>,
      <<"done", "start">> }

C10_Step ==
    /\ <<pc, pc'>> \in StageOrder
    /\ palette_builds' > palette_builds =>
          /\ pc = "loaded" /\ palette_builds' = 1
          /\ Len(frame_paths) = Cardinality(DOMAIN tmp_dir)
          /\ Len(frames_rgb) = Len(frame_paths)
          /\ frames_data = <<>>
    /\ pc' = "matched" =>
          /\ palette_builds = 1
          /\ Len(frames_data') = Len(frames_rgb)
    /\ (palette_builds >= 1 /\ run_no' = run_no) =>
          /\ palette' = palette /\ kmeans' = kmeans
          /\ chars' = chars /\ templates' = templates /\ template_norms' = template_norms
    /\ dest' # dest =>
          /\ pc = "matched"
          /\ Len(frames_data) = Len(frames_rgb)

\* C10: the stages follow one another in the one order; the palette is built
\* once, when every frame file has been listed and loaded and nothing has
\* been matched; once built, the palette and the glyph bank stay as they are
\* for the rest of the run; and the destination changes only when every
\* frame has been matched.
C10_StagesInSequence == [][C10_Step]_vars

\* a run of several frames that went through every stage
C10_Witness ==
    /\ pc = "done" /\ palette_builds = 1
    /\ Len(frames_data) >= 2 /\ Len(frames_data) = Len(video)

\* the position of a picture in PictureCycle
PictureIndex(pic) == CHOOSE j \in 1..Len(PictureCycle) : PictureCycle[j] = pic

\* the k-th frame block of a finished file
FrameBlock(bytes, k) ==
    LET fr0 == 9 + bytes[9] + 3 * n_colors
        fsize == cols * rows * 2
    IN SubSeq(bytes, fr0 + (k - 1) * fsize + 1, fr0 + k * fsize)

\* C2: in a finished file the k-th frame block is the encoding of the k-th
\* frame of the source, for every k, and inside it the pair of cell
\* (row, col) sits at pair position row*cols + col.
C2_OrderPreserved ==
    pc = "done" =>
       LET cell == Array([j \in 1..Len(PictureCycle) |->
                      IF \E k \in 1..Len(video) : video[k] = PictureCycle[j]
                      THEN Array([p \in 1..(rows * cols) |->
                              MatchResult(PictureCycle[j], templates, template_norms,
                                          kmeans, cols, rows, 0)
                                  [(p - 1) \div cols][(p - 1) % cols]])
                      ELSE <<>>])
       IN /\ ReadH(dest.bytes, 7) = Len(video)
          /\ \A k \in 1..Len(video) : \A rc \in Cells :
                PairAt(FrameBlock(dest.bytes, k), rc[1] * cols + rc[2])
                  = cell[PictureIndex(video[k])][rc[1] * cols + rc[2] + 1]

=============================================================================
